---- MODULE Spec2Model ----
(***************************************************************************)
(* Model of src/prophet_forecast.py: the column-name sanitizer, the        *)
(* one-hot encoding (pd.get_dummies), its inverse undummy, and the         *)
(* forecasting script that chains them around the forecasting engine.      *)
(*                                                                         *)
(* A string is a sequence of one-character strings.  A cell is a tagged    *)
(* tuple: <<"num", n>>, <<"str", s>> or <<"nan">>.  A table (DataFrame) is *)
(* column-major: columns (the names, in column order), data (one sequence  *)
(* of cells per column) and n (the number of rows).                        *)
(***************************************************************************)
EXTENDS Integers, Sequences, FiniteSets, TLC

VARIABLES df, orig, before, hist, err, idx, data, future, forecast, pc

vars == <<df, orig, before, hist, err, idx, data, future, forecast, pc>>

(***************************************************************************)
(* Bounds of the model.                                                    *)
(***************************************************************************)
MaxRows == 2
MaxVal == 1
MaxOps == 2
MaxNameLen == 5
MaxDataRows == 2
MaxDate == 2
\* the forecast horizon (30 in the script)
periods == 1

(***************************************************************************)
(* Cells.                                                                  *)
(***************************************************************************)
Num(n) == <<"num", n>>
Str(s) == <<"str", s>>
NaN == <<"nan">>
IsNum(c) == c[1] = "num"
IsStr(c) == c[1] = "str"

(***************************************************************************)
(* Python str operations.                                                  *)
(***************************************************************************)
StartsWith(s, p) == Len(p) <= Len(s) /\ SubSeq(s, 1, Len(p)) = p

RECURSIVE RStrip(_, _)
RStrip(s, ch) ==
    IF s # <<>> /\ s[Len(s)] = ch THEN RStrip(SubSeq(s, 1, Len(s) - 1), ch) ELSE s

RECURSIVE LStrip(_, _)
LStrip(s, ch) ==
    IF s # <<>> /\ s[1] = ch THEN LStrip(Tail(s), ch) ELSE s

Strip(s, ch) == LStrip(RStrip(s, ch), ch)

\* str.replace(pat, rep) with a literal pattern: every non-overlapping
\* occurrence, scanning from the left.
RECURSIVE ReplaceAll(_, _, _)
ReplaceAll(s, pat, rep) ==
    IF pat = <<>> THEN (IF s = <<>> THEN rep ELSE rep \o <<Head(s)>> \o ReplaceAll(Tail(s), pat, rep))
    ELSE IF s = <<>> THEN <<>>
    ELSE IF StartsWith(s, pat)
         THEN rep \o ReplaceAll(SubSeq(s, Len(pat) + 1, Len(s)), pat, rep)
         ELSE <<Head(s)>> \o ReplaceAll(Tail(s), pat, rep)

\* Code points of the characters the model uses (Python orders str by them).
Ord(ch) ==
    CASE ch = " " -> 32
      [] ch = "_" -> 95
      [] ch = "a" -> 97
      [] ch = "c" -> 99

RECURSIVE StrLess(_, _)
StrLess(s, t) ==
    IF t = <<>> THEN FALSE
    ELSE IF s = <<>> THEN TRUE
    ELSE IF s[1] = t[1] THEN StrLess(Tail(s), Tail(t))
    ELSE Ord(s[1]) < Ord(t[1])

(***************************************************************************)
(* sanitize_column_names (lines 14-18).                                    *)
(***************************************************************************)
Letters == {"a", "b", "c", "d", "e", "f", "g", "h", "i", "j", "k", "l", "m",
            "n", "o", "p", "q", "r", "s", "t", "u", "v", "w", "x", "y", "z",
            "A", "B", "C", "D", "E", "F", "G", "H", "I", "J", "K", "L", "M",
            "N", "O", "P", "Q", "R", "S", "T", "U", "V", "W", "X", "Y", "Z"}
Digits == {"0", "1", "2", "3", "4", "5", "6", "7", "8", "9"}
\* the character class [a-zA-Z0-9_]
IsAllowed(ch) == ch \in Letters \cup Digits \cup {"_"}

\* str.replace(r'[^a-zA-Z0-9_]', '_', regex=True)
ReplaceDisallowed(s) == [i \in 1..Len(s) |-> IF IsAllowed(s[i]) THEN s[i] ELSE "_"]

\* a variant that replaces the literal text "__" instead of the pattern __+
CollapseUnderscores_pairs(s) == ReplaceAll(s, <<"_", "_">>, <<"_">>)

\* str.replace(r'__+', '_', regex=True)
RECURSIVE CollapseUnderscores(_)
CollapseUnderscores(s) ==
    IF Len(s) < 2 THEN s
    ELSE IF s[1] = "_" /\ s[2] = "_" THEN CollapseUnderscores(Tail(s))
    ELSE <<s[1]>> \o CollapseUnderscores(Tail(s))

sanitize(name) == Strip(CollapseUnderscores(ReplaceDisallowed(name)), "_")

sanitize_column_names(t) ==
    [t EXCEPT !.columns = [i \in 1..Len(t.columns) |-> sanitize(t.columns[i])]]

(***************************************************************************)
(* Tables.                                                                 *)
(***************************************************************************)
EmptyTable == [columns |-> <<>>, data |-> <<>>, n |-> 0]

Indices(t) == 1..Len(t.columns)
HasColumn(t, name) == \E i \in Indices(t) : t.columns[i] = name
ColIndex(t, name) == CHOOSE i \in Indices(t) :
    t.columns[i] = name /\ \A j \in 1..(i - 1) : t.columns[j] # name
Column(t, name) == t.data[ColIndex(t, name)]

\* the positions 1..len that lie in keep, in increasing order
RECURSIVE Positions(_, _, _)
Positions(len, keep, i) ==
    IF i > len THEN <<>>
    ELSE (IF i \in keep THEN <<i>> ELSE <<>>) \o Positions(len, keep, i + 1)

\* df[[...]] by position
Take(t, ps) ==
    [columns |-> [k \in 1..Len(ps) |-> t.columns[ps[k]]],
     data |-> [k \in 1..Len(ps) |-> t.data[ps[k]]],
     n |-> t.n]

\* df.drop(columns=names)
Drop(t, names) ==
    LET keep == {i \in Indices(t) : ~ \E k \in 1..Len(names) : names[k] = t.columns[i]}
    IN Take(t, Positions(Len(t.columns), keep, 1))

\* df[name] = values: overwrite in place, or append as the last column
Assign(t, name, values) ==
    IF HasColumn(t, name)
    THEN [t EXCEPT !.data[ColIndex(t, name)] = values]
    ELSE [t EXCEPT !.columns = Append(t.columns, name), !.data = Append(t.data, values)]

\* pd.concat([a, b], axis=1)
ConcatColumns(a, b) ==
    [columns |-> a.columns \o b.columns, data |-> a.data \o b.data, n |-> a.n]

(***************************************************************************)
(* pd.get_dummies(data, columns=[...]) (line 48): the columns not encoded, *)
(* in their order, then for each encoded column one indicator column per   *)
(* level, in sorted level order, named column + "_" + level.               *)
(***************************************************************************)
Levels(t, c) == {Column(t, c)[r][2] : r \in 1..t.n}

RECURSIVE SortedSeq(_)
SortedSeq(S) ==
    IF S = {} THEN <<>>
    ELSE LET m == CHOOSE x \in S : \A y \in S \ {x} : StrLess(x, y)
         IN <<m>> \o SortedSeq(S \ {m})

DummyName(c, level) == c \o <<"_">> \o level

\* a variant that leaves out the first level (drop_first=True)
Dummies1d_drop_first(t, c) ==
    LET levels == Tail(SortedSeq(Levels(t, c)))
    IN [columns |-> [k \in 1..Len(levels) |-> DummyName(c, levels[k])],
        data |-> [k \in 1..Len(levels) |->
                    [r \in 1..t.n |-> IF Column(t, c)[r] = Str(levels[k]) THEN Num(1) ELSE Num(0)]],
        n |-> t.n]

Dummies1d(t, c) ==
    LET levels == SortedSeq(Levels(t, c))
    IN [columns |-> [k \in 1..Len(levels) |-> DummyName(c, levels[k])],
        data |-> [k \in 1..Len(levels) |->
                    [r \in 1..t.n |-> IF Column(t, c)[r] = Str(levels[k]) THEN Num(1) ELSE Num(0)]],
        n |-> t.n]

RECURSIVE ConcatDummies(_, _, _)
ConcatDummies(acc, t, cols) ==
    IF cols = <<>> THEN acc
    ELSE ConcatDummies(ConcatColumns(acc, Dummies1d(t, Head(cols))), t, Tail(cols))

get_dummies(t, cols) == ConcatDummies(Drop(t, cols), t, cols)

(***************************************************************************)
(* undummy(df, prefix) (lines 22-26).                                      *)
(***************************************************************************)
\* a variant that matches on the prefix without its trailing underscores
dummy_cols_stripped(t, prefix) ==
    Positions(Len(t.columns), {i \in Indices(t) : StartsWith(t.columns[i], RStrip(prefix, "_"))}, 1)

\* [col for col in df.columns if col.startswith(prefix)], as positions
dummy_cols(t, prefix) ==
    Positions(Len(t.columns), {i \in Indices(t) : StartsWith(t.columns[i], prefix)}, 1)

DummyNames(t, prefix) ==
    LET ps == dummy_cols(t, prefix) IN [k \in 1..Len(ps) |-> t.columns[ps[k]]]

\* a variant that takes the last column holding the row's maximum
idxmax_last(t, ps) ==
    [r \in 1..t.n |->
        LET k == CHOOSE k \in 1..Len(ps) :
                    /\ \A j \in 1..Len(ps) : t.data[ps[j]][r][2] <= t.data[ps[k]][r][2]
                    /\ \A j \in (k + 1)..Len(ps) : t.data[ps[j]][r][2] < t.data[ps[k]][r][2]
        IN t.columns[ps[k]]]

\* DataFrame.idxmax(axis=1) over the columns at positions ps: per row, the
\* name of the first column, in column order, that holds the row's maximum
idxmax(t, ps) ==
    [r \in 1..t.n |->
        LET k == CHOOSE k \in 1..Len(ps) :
                    /\ \A j \in 1..Len(ps) : t.data[ps[j]][r][2] <= t.data[ps[k]][r][2]
                    /\ \A j \in 1..(k - 1) : t.data[ps[j]][r][2] < t.data[ps[k]][r][2]
        IN t.columns[ps[k]]]

\* Series.str.replace(prefix, '')
StripLabel(name, prefix) == ReplaceAll(name, prefix, <<>>)

\* the exception idxmax raises, "" when it raises none: the argmax of an
\* empty sequence, or of values that are not numbers
UndummyError(t, prefix) ==
    LET ps == dummy_cols(t, prefix)
    IN IF ps = <<>> THEN "ValueError"
       ELSE IF \E k \in 1..Len(ps) : \E r \in 1..t.n : ~ IsNum(t.data[ps[k]][r])
            THEN "TypeError"
            ELSE ""

NewColumn(prefix) == RStrip(prefix, "_")

\* a variant that leaves out the drop of the indicator columns
undummy_keep_dummies(t, prefix) ==
    LET chosen == idxmax(t, dummy_cols(t, prefix))
        labels == [r \in 1..t.n |-> Str(StripLabel(chosen[r], prefix))]
    IN Assign(t, NewColumn(prefix), labels)

undummy(t, prefix) ==
    LET chosen == idxmax(t, dummy_cols(t, prefix))
        labels == [r \in 1..t.n |-> Str(StripLabel(chosen[r], prefix))]
    IN Drop(Assign(t, NewColumn(prefix), labels), DummyNames(t, prefix))

(***************************************************************************)
(* The tables the encode/decode component is driven with.                  *)
(***************************************************************************)
\* level labels; some contain the text "c_"
Labels == {<<"a">>, <<"c">>, <<"a", "c">>, <<"c", "_">>, <<"a", "_", "c">>, <<"c", "_", "a">>}
CatNames == {<<"c">>, <<"c", "_">>}
OtherNames == {<<"y">>, <<"c", "_", "y">>}

\* a raw table: a numeric column holding the row number, then a categorical column
RawTables ==
    {[columns |-> <<o, c>>,
      data |-> <<[r \in 1..n |-> Num(r)], [r \in 1..n |-> Str(ls[r])]>>,
      n |-> n] :
        <<o, c, n, ls>> \in {<<o, c, n, ls>> \in
            OtherNames \X CatNames \X (1..MaxRows) \X UNION {[1..k -> Labels] : k \in 1..MaxRows} :
            Len(ls) = n}}

\* column layouts of tables that already hold indicator-like columns
Layouts == {<<<<"c", "_", "a">>, <<"y">>, <<"c", "_", "c">>>>,
            <<<<"c", "_", "c", "_", "a">>, <<"c">>, <<"c", "_", "c">>>>,
            <<<<"y">>, <<"c", "_", "_", "a">>, <<"c", "_", "_", "c">>>>}

NumTables ==
    {[columns |-> lay,
      data |-> [i \in 1..3 |-> [r \in 1..n |-> Num(v[(i - 1) * n + r])]],
      n |-> n] :
        <<lay, n, v>> \in {<<lay, n, v>> \in
            Layouts \X (1..MaxRows) \X UNION {[1..(3 * k) -> 0..MaxVal] : k \in 1..MaxRows} :
            Len(v) = 3 * n}}

Prefixes == {<<"c", "_">>, <<"c">>, <<"c", "_", "_">>, <<"d", "_">>}

(***************************************************************************)
(* The component as a state machine: a caller holds a table df and applies *)
(* get_dummies and undummy to it.                                          *)
(***************************************************************************)
Idle == data = EmptyTable /\ future = EmptyTable /\ forecast = EmptyTable /\ pc = "component"

Init ==
    /\ df \in RawTables \cup NumTables
    /\ orig = df
    /\ before = df
    /\ hist = <<>>
    /\ err = ""
    /\ idx = <<>>
    /\ Idle

CatColumns(t) == {t.columns[i] : i \in {i \in Indices(t) : \A r \in 1..t.n : IsStr(t.data[i][r])}}

GetDummies(c) ==
    /\ Len(hist) < MaxOps /\ err = ""
    /\ c \in CatColumns(df)
    /\ df' = get_dummies(df, <<c>>)
    /\ before' = df
    /\ hist' = Append(hist, [op |-> "get_dummies", arg |-> c])
    /\ err' = ""
    /\ idx' = <<>>
    /\ UNCHANGED <<orig, data, future, forecast, pc>>

Undummy(prefix) ==
    /\ Len(hist) < MaxOps /\ err = ""
    /\ err' = UndummyError(df, prefix)
    /\ IF err' = ""
       THEN /\ df' = undummy(df, prefix)
            /\ idx' = idxmax(df, dummy_cols(df, prefix))
       ELSE /\ df' = df
            /\ idx' = <<>>
    /\ before' = df
    /\ hist' = Append(hist, [op |-> "undummy", arg |-> prefix])
    /\ UNCHANGED <<orig, data, future, forecast, pc>>

Next ==
    \/ \E c \in CatNames : GetDummies(c)
    \/ \E prefix \in Prefixes : Undummy(prefix)

Spec == Init /\ [][Next]_vars

(***************************************************************************)
(* Vocabulary of the claims about the component.                           *)
(***************************************************************************)
LastOp == hist[Len(hist)]
Names(t) == {t.columns[i] : i \in Indices(t)}
\* undummy has just returned normally; before is its input table
Decoded == hist # <<>> /\ LastOp.op = "undummy" /\ err = ""
\* get_dummies has just returned; before is its input table
Encoded == hist # <<>> /\ LastOp.op = "get_dummies"
\* the positions of the input columns whose name starts with the prefix
Matched(t, prefix) == {i \in Indices(t) : StartsWith(t.columns[i], prefix)}
\* the names of seq that lie in S, in order
RECURSIVE FilterNames(_, _)
FilterNames(seq, S) ==
    IF seq = <<>> THEN <<>>
    ELSE (IF Head(seq) \in S THEN <<Head(seq)>> ELSE <<>>) \o FilterNames(Tail(seq), S)
\* a name without its leading Len(prefix) characters
DropLeading(name, prefix) == SubSeq(name, Len(prefix) + 1, Len(name))
\* a prefix without its one trailing separator character
WithoutSeparator(prefix) ==
    IF prefix # <<>> /\ prefix[Len(prefix)] = "_" THEN SubSeq(prefix, 1, Len(prefix) - 1) ELSE prefix
\* encode of column C of the original table, then decode with prefix C + "_"
RoundTrip ==
    /\ Len(hist) = 2
    /\ hist[1].op = "get_dummies"
    /\ hist[2].op = "undummy"
    /\ hist[2].arg = hist[1].arg \o <<"_">>
SameUpToColumnOrder(a, b) ==
    /\ a.n = b.n
    /\ Len(a.columns) = Len(b.columns)
    /\ Names(a) = Names(b)
    /\ \A name \in Names(a) : Column(a, name) = Column(b, name)
NoSanitizeCollision(S) == \A x \in S : \A y \in S : x # y => sanitize(x) # sanitize(y)

(***************************************************************************)
(* C1: round-trip law.  For a table whose categorical column C holds       *)
(* labels no two of which sanitize to the same name, get_dummies on C      *)
(* followed by undummy with prefix C + "_" returns normally, with a column *)
(* C equal to the original row for row and a table equal to the original   *)
(* up to column order.  Stated for the tables decode's own contract        *)
(* admits: no other column of the table starts with C + "_", and C does    *)
(* not end with the separator.                                             *)
(***************************************************************************)
C1_RoundTripLaw ==
    (/\ RoundTrip
     /\ NoSanitizeCollision(Levels(orig, hist[1].arg))
     /\ Matched(orig, hist[2].arg) = {}
     /\ RStrip(hist[1].arg, "_") = hist[1].arg)
        => /\ err = ""
           /\ HasColumn(df, hist[1].arg)
           /\ Column(df, hist[1].arg) = Column(orig, hist[1].arg)
           /\ SameUpToColumnOrder(df, orig)

(***************************************************************************)
(* C2: undummy with a prefix no column name starts with signals a          *)
(* SchemaError and leaves the table as it was.                             *)
(***************************************************************************)
C2_NoMatchSchemaError ==
    (hist # <<>> /\ LastOp.op = "undummy" /\ Matched(before, LastOp.arg) = {})
        => err = "SchemaError" /\ df = before

\* C2 as amended: undummy with a prefix no column name starts with raises
\* the ValueError of an argmax over no columns and leaves the table as it
\* was: same columns, same values, no new column.
C2_NoMatchValueError ==
    (hist # <<>> /\ LastOp.op = "undummy" /\ Matched(before, LastOp.arg) = {})
        => err = "ValueError" /\ df = before

C2_Witness ==
    /\ hist # <<>> /\ LastOp.op = "undummy" /\ Matched(before, LastOp.arg) = {}
    /\ err # "" /\ before.n = 2

(***************************************************************************)
(* C3: per row, the column undummy chooses holds the maximum among the     *)
(* columns whose name starts with the prefix, and is the first of those    *)
(* holding it, in column order (also when all matched values are zero).    *)
(***************************************************************************)
C3_FirstArgmax ==
    Decoded =>
        \A r \in 1..before.n :
            \E i \in Matched(before, LastOp.arg) :
                /\ idx[r] = before.columns[i]
                /\ \A j \in Matched(before, LastOp.arg) :
                      /\ before.data[j][r][2] <= before.data[i][r][2]
                      /\ j < i => before.data[j][r][2] < before.data[i][r][2]

\* a row whose matched values are all zero, and one with a tie at the maximum 1
C3_Witness ==
    /\ Decoded /\ before.n = 2 /\ Cardinality(Matched(before, LastOp.arg)) >= 2
    /\ \A i \in Matched(before, LastOp.arg) : before.data[i][1] = Num(0)
    /\ \A i \in Matched(before, LastOp.arg) : before.data[i][2] = Num(1)
    /\ \A r \in 1..2 : idx[r] = before.columns[CHOOSE i \in Matched(before, LastOp.arg) :
                                    \A j \in Matched(before, LastOp.arg) : i <= j]

(***************************************************************************)
(* C4: after a successful undummy the result holds exactly the input       *)
(* columns whose name does not start with the prefix, values unchanged,    *)
(* plus one new column named as the prefix without its trailing separator  *)
(* character; no column whose name starts with the prefix remains and the  *)
(* number of rows is unchanged.                                            *)
(***************************************************************************)
C4_FrameOfDecode ==
    Decoded =>
        LET prefix == LastOp.arg
            kept == {before.columns[i] : i \in Indices(before) \ Matched(before, prefix)}
            new == WithoutSeparator(prefix)
        IN /\ df.n = before.n
           /\ new \notin Names(before)
           /\ Names(df) = kept \cup {new}
           /\ Len(df.columns) = Cardinality(kept) + 1
           /\ \A name \in kept : Column(df, name) = Column(before, name)
           /\ Matched(df, prefix) = {}

\* C4 as amended.  With N the prefix without all its trailing underscores:
\* the input columns whose name neither starts with the prefix nor is N
\* remain, in their order and with their values; column N holds the
\* reconstructed labels, in place of an input column N or else as the last
\* column, unless an input column N itself started with the prefix, and
\* then no column N remains; no column other than N starts with the
\* prefix; the number of rows is unchanged.
C4_FrameOfDecodeAmended ==
    Decoded =>
        LET prefix == LastOp.arg
            N == RStrip(prefix, "_")
            kept == {before.columns[i] : i \in Indices(before) \ Matched(before, prefix)} \ {N}
            present == ~ (N \in Names(before) /\ StartsWith(N, prefix))
        IN /\ df.n = before.n
           /\ Names(df) = kept \cup (IF present THEN {N} ELSE {})
           /\ Len(df.columns) = Cardinality(Names(df))
           /\ FilterNames(df.columns, kept) = FilterNames(before.columns, kept)
           /\ \A name \in kept : Column(df, name) = Column(before, name)
           /\ present =>
                 /\ \A r \in 1..df.n : IsStr(Column(df, N)[r])
                 /\ N \in Names(before) => ColIndex(df, N) = Len(FilterNames(SubSeq(before.columns, 1, ColIndex(before, N)), Names(df)))
                 /\ N \notin Names(before) => df.columns[Len(df.columns)] = N
           /\ \A i \in Matched(df, prefix) : df.columns[i] = N

\* an input with two matched columns and one that is neither matched nor N
C4_Witness ==
    /\ Decoded /\ before.n = 2
    /\ Cardinality(Matched(before, LastOp.arg)) = 2
    /\ Len(df.columns) = 2
    /\ RStrip(LastOp.arg, "_") \notin Names(before)
    /\ df.columns[2] = RStrip(LastOp.arg, "_")
    /\ df.data[1] = before.data[2]

(***************************************************************************)
(* C6: cardinality invariant.  get_dummies on a column with k distinct     *)
(* levels removes that column and nothing else, and adds exactly k         *)
(* indicator columns, one per level, named column + "_" + level, holding   *)
(* 1 in the rows of that level and 0 in the others; a single level gives   *)
(* one indicator column that is 1 in every row.                            *)
(***************************************************************************)
C6_Cardinality ==
    Encoded =>
        LET c == LastOp.arg
            levels == Levels(before, c)
            k == Cardinality(levels)
        IN /\ df.n = before.n
           /\ Len(df.columns) = Len(before.columns) - 1 + k
           /\ Cardinality(Names(df) \ Names(before)) = k
           /\ Names(before) \ Names(df) = {c}
           /\ \A name \in Names(before) \ {c} : Column(df, name) = Column(before, name)
           /\ \A l \in levels :
                 /\ HasColumn(df, c \o <<"_">> \o l)
                 /\ \A r \in 1..df.n :
                       Column(df, c \o <<"_">> \o l)[r] = (IF Column(before, c)[r] = Str(l) THEN Num(1) ELSE Num(0))
           /\ k = 1 => \A r \in 1..df.n : df.data[Len(df.columns)][r] = Num(1)

C6_Witness ==
    /\ Encoded /\ before.n = 2
    /\ Cardinality(Levels(before, LastOp.arg)) = 2
    /\ Len(df.columns) = 3

(***************************************************************************)
(* C9: the value undummy writes for a row is the chosen column's name      *)
(* without its leading occurrence of the prefix and otherwise unchanged:   *)
(* for a chosen column prefix + L it is exactly L.                         *)
(***************************************************************************)
C9_LeadingPrefixOnly ==
    (Decoded /\ HasColumn(df, RStrip(LastOp.arg, "_")))
        => \A r \in 1..df.n :
              Column(df, RStrip(LastOp.arg, "_"))[r] = Str(DropLeading(idx[r], LastOp.arg))

(***************************************************************************)
(* The sanitizer as a state machine: a caller holds a table and applies    *)
(* sanitize_column_names to it, once or again.                             *)
(***************************************************************************)
SanChars == {"a", "_", " "}
SanNames == UNION {[1..k -> SanChars] : k \in 0..MaxNameLen}
SecondNames == {<<"a", "_", "a">>, <<"a">>}

SanitizeInit ==
    /\ df \in {[columns |-> <<x, y>>, data |-> <<<<Num(0)>>, <<Num(1)>>>>, n |-> 1] :
                <<x, y>> \in {<<x, y>> \in SanNames \X SecondNames : x # y}}
    /\ orig = df
    /\ before = df
    /\ hist = <<>>
    /\ err = ""
    /\ idx = <<>>
    /\ Idle

Sanitize ==
    /\ Len(hist) < MaxOps
    /\ df' = sanitize_column_names(df)
    /\ before' = df
    /\ hist' = Append(hist, [op |-> "sanitize", arg |-> <<>>])
    /\ UNCHANGED <<orig, err, idx, data, future, forecast, pc>>

SanitizeNext == Sanitize

SpecSanitize == SanitizeInit /\ [][SanitizeNext]_vars

Sanitized == hist # <<>> /\ LastOp.op = "sanitize"

(***************************************************************************)
(* C7: every name sanitize_column_names yields is made only of ASCII       *)
(* letters, digits and underscores, has no leading underscore, no trailing *)
(* underscore and no two consecutive underscores; a second application     *)
(* leaves every name unchanged.                                            *)
(***************************************************************************)
C7_SafeNames ==
    Sanitized =>
        /\ \A i \in Indices(df) :
              LET name == df.columns[i]
              IN /\ \A k \in 1..Len(name) : name[k] \in Letters \cup Digits \cup {"_"}
                 /\ name # <<>> => name[1] # "_" /\ name[Len(name)] # "_"
                 /\ \A k \in 1..(Len(name) - 1) : ~ (name[k] = "_" /\ name[k + 1] = "_")
        /\ Len(hist) = 2 => df.columns = before.columns
        /\ df.data = orig.data /\ df.n = orig.n

\* a name with a leading space and an inner run of three separators, sanitized twice
C7_Witness ==
    /\ Sanitized /\ Len(hist) = 2
    /\ orig.columns[1] = <<" ", "a", "_", " ", "_">>
    /\ df.columns[1] = <<"a">>

(***************************************************************************)
(* C8: the sanitizer is invertible: distinct names get distinct sanitized  *)
(* names, and where two distinct names would get the same one this is      *)
(* reported as a SanitizationCollisionError instead of two columns of the  *)
(* same name being produced.                                               *)
(***************************************************************************)
C8_NoSilentCollision ==
    (Sanitized /\ Len(hist) = 1 /\ before.columns[1] # before.columns[2])
        => \/ df.columns[1] # df.columns[2]
           \/ err = "SanitizationCollisionError"

(***************************************************************************)
(* The forecasting script (lines 37-99).                                   *)
(***************************************************************************)
DS == <<"d", "s">>
Y == <<"y">>
DCN == <<"d", "i", "s", "t", "r", "i", "b", "u", "t", "i", "o", "n", "_",
         "c", "e", "n", "t", "e", "r", "_", "n", "a", "m", "e">>
PN == <<"p", "r", "o", "d", "u", "c", "t", "_", "n", "a", "m", "e">>
YHAT == <<"y", "h", "a", "t">>
YHAT_LOWER == YHAT \o <<"_", "l", "o", "w", "e", "r">>
YHAT_UPPER == YHAT \o <<"_", "u", "p", "p", "e", "r">>
DCN_ == DCN \o <<"_">>
PN_ == PN \o <<"_">>

\* row r of a table, as the sequence of its cells in column order
Row(t, r) == [i \in 1..Len(t.columns) |-> t.data[i][r]]

RECURSIVE SortedNums(_)
SortedNums(S) ==
    IF S = {} THEN <<>>
    ELSE LET m == CHOOSE x \in S : \A y \in S : x <= y
         IN <<m>> \o SortedNums(S \ {m})

\* [col for col in data.columns if col.startswith('distribution_center_name_')
\*  or col.startswith('product_name_')], as positions
regressor_columns(t) ==
    Positions(Len(t.columns),
              {i \in Indices(t) : StartsWith(t.columns[i], DCN_) \/ StartsWith(t.columns[i], PN_)}, 1)

\* model.make_future_dataframe(periods, freq='1D'): the distinct dates of
\* the fitted history in increasing order, then the next `periods` days
make_future_dataframe(t, p) ==
    LET history == SortedNums({Column(t, DS)[r][2] : r \in 1..t.n})
        last == history[Len(history)]
        dates == history \o [k \in 1..p |-> last + k]
    IN [columns |-> <<DS>>, data |-> <<[r \in 1..Len(dates) |-> Num(dates[r])]>>, n |-> Len(dates)]

\* the (left row, right row) pairs of left.merge(right, on=key, how='left'):
\* left rows in order, each with its matching right rows in order, or with
\* right row 0 (no match)
RECURSIVE MergePairs(_, _, _, _)
MergePairs(left, right, key, l) ==
    IF l > left.n THEN <<>>
    ELSE LET ms == Positions(right.n, {r \in 1..right.n : Column(right, key)[r] = Column(left, key)[l]}, 1)
         IN (IF ms = <<>> THEN <<<<l, 0>>>> ELSE [k \in 1..Len(ms) |-> <<l, ms[k]>>])
            \o MergePairs(left, right, key, l + 1)

\* left.merge(right, on=key, how='left')
merge_left(left, right, key) ==
    LET pairs == MergePairs(left, right, key, 1)
        rest == Drop(right, <<key>>)
    IN [columns |-> left.columns \o rest.columns,
        data |-> [i \in 1..Len(left.columns) |-> [k \in 1..Len(pairs) |-> left.data[i][pairs[k][1]]]]
                 \o [i \in 1..Len(rest.columns) |->
                        [k \in 1..Len(pairs) |->
                            IF pairs[k][2] = 0 THEN NaN ELSE rest.data[i][pairs[k][2]]]],
        n |-> Len(pairs)]

\* a variant that fills with 0 instead of the last known values
fillna_zero(t, d) ==
    [t EXCEPT !.data = [i \in 1..Len(t.columns) |->
        [r \in 1..t.n |-> IF t.data[i][r] = NaN THEN Num(0) ELSE t.data[i][r]]]]

\* future[regressor_columns].fillna(last_known_values), last_known_values
\* being data.iloc[-1][regressor_columns]
fillna_last_known(t, d) ==
    [t EXCEPT !.data = [i \in 1..Len(t.columns) |->
        IF \E k \in 1..Len(regressor_columns(d)) : d.columns[regressor_columns(d)[k]] = t.columns[i]
        THEN [r \in 1..t.n |-> IF t.data[i][r] = NaN THEN Column(d, t.columns[i])[d.n] ELSE t.data[i][r]]
        ELSE t.data[i]]]

\* model.predict(future): one row per row of future, in order, with the
\* prediction and its bounds as values determined by that row
predict(t) ==
    [columns |-> <<DS, YHAT, YHAT_LOWER, YHAT_UPPER>>,
     data |-> <<Column(t, DS),
                [r \in 1..t.n |-> <<"yhat", Row(t, r)>>],
                [r \in 1..t.n |-> <<"yhat_lower", Row(t, r)>>],
                [r \in 1..t.n |-> <<"yhat_upper", Row(t, r)>>]>>,
     n |-> t.n]

\* df[[names]]
Select(t, names) == Take(t, [k \in 1..Len(names) |-> ColIndex(t, names[k])])

DataLabels == {<<"a">>, <<"c">>}
DateSeqs == UNION {[1..k -> 1..MaxDate] : k \in 2..MaxDataRows}
LabelSeqs == UNION {[1..k -> DataLabels] : k \in 2..MaxDataRows}

\* the rows read from the warehouse: at least the two rows fit requires
PipelineInit ==
    /\ data \in {[columns |-> <<DS, Y, DCN, PN>>,
                  data |-> <<[r \in 1..n |-> Num(d[r])], [r \in 1..n |-> Num(r)],
                             [r \in 1..n |-> Str(dc[r])], [r \in 1..n |-> Str(pn[r])]>>,
                  n |-> n] :
            <<n, d, dc, pn>> \in {<<n, d, dc, pn>> \in
                (2..MaxDataRows) \X DateSeqs \X LabelSeqs \X LabelSeqs :
                Len(d) = n /\ Len(dc) = n /\ Len(pn) = n}}
    /\ future = EmptyTable
    /\ forecast = EmptyTable
    /\ pc = "loaded"
    /\ df = EmptyTable /\ orig = EmptyTable /\ before = EmptyTable
    /\ hist = <<>> /\ err = "" /\ idx = <<>>

\* line 48
Encode ==
    /\ pc = "loaded"
    /\ data' = get_dummies(data, <<DCN, PN>>)
    /\ pc' = "encoded"
    /\ UNCHANGED <<df, orig, before, hist, err, idx, future, forecast>>

\* lines 51-66
MakeFuture ==
    /\ pc = "encoded"
    /\ future' = make_future_dataframe(data, periods)
    /\ pc' = "future"
    /\ UNCHANGED <<df, orig, before, hist, err, idx, data, forecast>>

\* line 75
MergeFuture ==
    /\ pc = "future"
    /\ future' = merge_left(future, Take(data, <<ColIndex(data, DS)>> \o regressor_columns(data)), DS)
    /\ pc' = "future_merged"
    /\ UNCHANGED <<df, orig, before, hist, err, idx, data, forecast>>

\* line 78
FillNa ==
    /\ pc = "future_merged"
    /\ future' = fillna_last_known(future, data)
    /\ pc' = "future_filled"
    /\ UNCHANGED <<df, orig, before, hist, err, idx, data, forecast>>

\* line 86
Predict ==
    /\ pc = "future_filled"
    /\ forecast' = predict(future)
    /\ pc' = "predicted"
    /\ UNCHANGED <<df, orig, before, hist, err, idx, data, future>>

\* line 91
MergeForecast ==
    /\ pc = "predicted"
    /\ forecast' = merge_left(forecast, Take(future, <<ColIndex(future, DS)>> \o regressor_columns(future)), DS)
    /\ pc' = "forecast_merged"
    /\ UNCHANGED <<df, orig, before, hist, err, idx, data, future>>

\* line 94
UndummyDistributionCenter ==
    /\ pc = "forecast_merged"
    /\ forecast' = undummy(forecast, DCN_)
    /\ pc' = "dc_decoded"
    /\ UNCHANGED <<df, orig, before, hist, err, idx, data, future>>

\* line 97
UndummyProduct ==
    /\ pc = "dc_decoded"
    /\ forecast' = undummy(forecast, PN_)
    /\ pc' = "pn_decoded"
    /\ UNCHANGED <<df, orig, before, hist, err, idx, data, future>>

\* line 99
SelectColumns ==
    /\ pc = "pn_decoded"
    /\ forecast' = Select(forecast, <<DS, DCN, PN, YHAT, YHAT_LOWER, YHAT_UPPER>>)
    /\ pc' = "done"
    /\ UNCHANGED <<df, orig, before, hist, err, idx, data, future>>

PipelineNext ==
    \/ Encode
    \/ MakeFuture
    \/ MergeFuture
    \/ FillNa
    \/ Predict
    \/ MergeForecast
    \/ UndummyDistributionCenter
    \/ UndummyProduct
    \/ SelectColumns

SpecPipeline == PipelineInit /\ [][PipelineNext]_vars

\* in every row exactly one column of the prefix holds 1 and the others hold 0
OneHot(t, prefix) ==
    \A r \in 1..t.n :
        /\ Cardinality({i \in Matched(t, prefix) : t.data[i][r] = Num(1)}) = 1
        /\ \A i \in Matched(t, prefix) : t.data[i][r] \in {Num(0), Num(1)}

C10_MergeKeepsRows ==
    pc = "forecast_merged" =>
        /\ forecast.n = future.n
        /\ \A r \in 1..forecast.n :
              \A i \in Matched(forecast, DCN_) \cup Matched(forecast, PN_) :
                  forecast.data[i][r] = Column(forecast, YHAT)[r][2][ColIndex(future, forecast.columns[i])]

====
